---- MODULE Spec2Model ----
(***************************************************************************)
(* Model of the Spotify proxy routes of the portfolio web site: the         *)
(* now-playing GET handler with its two retry wrappers, getAccessToken and *)
(* fetchWithRetry, and the revisions of the top-tracks GET handler.  One   *)
(* step of the model is the code that runs between two awaits of a         *)
(* handler.                                                                *)
(***************************************************************************)
EXTENDS Integers, Sequences, FiniteSets, TLC

\* SPOTIFY_CONFIG.RETRY
MAX_ATTEMPTS == 3
BACKOFF_BASE == 1000

\* Bounds of the model
MaxCalls == 2
MaxArtists == 2
MaxItems == 2

VARIABLES
  pc,            \* position of the handler invocation
  calls,         \* number of invocations started so far
  tokRetry,      \* retryCount of getAccessToken
  resRetry,      \* retryCount of fetchWithRetry
  tokReqs,       \* HTTP requests sent to the token endpoint by this invocation
  resReqs,       \* HTTP requests sent to the currently-playing endpoint
  events,        \* log of this invocation: attempts, their results, waits
  tokOut,        \* outcome of the last token request
  resOut,        \* outcome of the last currently-playing request
  access_token,  \* access_token destructured from the token JSON
  bearer,        \* value sent as Bearer token to the currently-playing endpoint
  response,      \* the Response returned by fetchWithRetry
  song,          \* the body read by response.json() in GET
  parsed,        \* TRUE once GET has called response.json()
  err,           \* the last error caught
  reply,         \* the reply emitted by GET
  replies,       \* number of replies emitted by this invocation
  route,         \* the return statement that emitted the reply
  revision       \* the revision of the now-playing route that is deployed

VARIABLES
  typer,         \* the SkillTyper component
  widget         \* the NowPlaying widget

VARIABLES
  top,           \* the invocation of the top-tracks handler
  inv,           \* the now-playing invocations that run interleaved
  seen           \* what each interleaved invocation was resumed with, in order

vars == <<pc, calls, tokRetry, resRetry, tokReqs, resReqs, events, tokOut,
          resOut, access_token, bearer, response, song, parsed, err, reply,
          replies, route, revision, top, inv, seen, typer, widget>>

\* The client components
ClientVars == <<typer, widget>>

----------------------------------------------------------------------------
(* JSON values: a property is undefined (absent), null, or has a value. *)

Undef(d) == [k |-> "undef", v |-> d]
Null(d) == [k |-> "null", v |-> d]
Val(x) == [k |-> "val", v |-> x]

\* HTTP statuses the upstream endpoints may answer with
Statuses == {200, 204, 302, 400, 404, 500}

\* Outcome of one fetch(): a transport exception, or a response
Throw == [kind |-> "throw", status |-> 0]
Resp(s) == [kind |-> "resp", status |-> s]
Outcomes == {Throw} \cup {Resp(s) : s \in Statuses}
NoOutcome == [kind |-> "none", status |-> 0]

\* Response.ok
ok204(status) == status = 200
okAlways(status) == TRUE
ok(status) == status >= 200 /\ status <= 299

\* Bodies of the token endpoint
Tokens == {"tokA", "tokB"}
TokenBody(kind, at) == [kind |-> kind, access_token |-> at]
TokenBodies ==
  {TokenBody("unparseable", Undef("")), TokenBody("null", Undef("")),
   TokenBody("object", Undef(""))}
  \cup {TokenBody("object", Val(t)) : t \in Tokens}

\* Bodies of the currently-playing endpoint (SpotifyTrack and its defects)
BaseSong ==
  [kind |-> "object",
   is_playing |-> Val(TRUE),
   progress_ms |-> Val(50000),
   item |-> [k |-> "val",
             name |-> Val("Song"),
             artists |-> [k |-> "val", v |-> <<Val("A"), Val("B")>>],
             album |-> [k |-> "val",
                        name |-> Val("Alb"),
                        images |-> [k |-> "val", v |-> <<Val("http://x")>>]],
             external_urls |-> [k |-> "val", spotify |-> Val("http://y")],
             duration_ms |-> Val(200000)]]

ArtistSeqs == UNION {[1..n -> {Val("A"), Val("B")}] : n \in 0..MaxArtists}
ImageSeqs == {<<Val("http://x")>>, <<Val("http://z"), Val("http://x")>>}

WellFormedSongs ==
  {[BaseSong EXCEPT !.is_playing = Val(p), !.progress_ms = Val(n),
                    !.item.artists.v = as, !.item.album.images.v = im] :
     p \in BOOLEAN, n \in {0, 50000}, as \in ArtistSeqs, im \in ImageSeqs}

\* Bodies on which the projection raises
RaisingSongs ==
  {[BaseSong EXCEPT !.kind = "unparseable"],
   [BaseSong EXCEPT !.kind = "null"],
   [BaseSong EXCEPT !.item.k = "undef"],
   [BaseSong EXCEPT !.item.k = "null"],
   [BaseSong EXCEPT !.item.album.k = "undef"],
   [BaseSong EXCEPT !.item.album.images.k = "undef"],
   [BaseSong EXCEPT !.item.album.images.v = <<>>],
   [BaseSong EXCEPT !.item.artists.k = "undef"],
   [BaseSong EXCEPT !.item.external_urls.k = "undef"]}

\* Bodies that lack a leaf value but on which nothing raises
LeafDefectSongs ==
  {[BaseSong EXCEPT !.is_playing = Undef(FALSE)],
   [BaseSong EXCEPT !.progress_ms = Undef(0)],
   [BaseSong EXCEPT !.progress_ms = Null(0)],
   [BaseSong EXCEPT !.item.name = Undef("")],
   [BaseSong EXCEPT !.item.album.name = Undef("")],
   [BaseSong EXCEPT !.item.album.images.v = <<Undef("")>>],
   [BaseSong EXCEPT !.item.external_urls.spotify = Undef("")],
   [BaseSong EXCEPT !.item.duration_ms = Undef(0)],
   [BaseSong EXCEPT !.item.artists.v = <<Undef(""), Val("B")>>]}

Songs == WellFormedSongs \cup RaisingSongs \cup LeafDefectSongs
NoSong == [BaseSong EXCEPT !.kind = "none"]

----------------------------------------------------------------------------
(* Errors *)

NoError == [k |-> "none", status |-> 0]
\* new Error(`HTTP error! status: ${response.status}`), or what fetch threw
ErrorGeneric(out) == [k |-> "generic", status |-> 0]
ErrorOf(out) ==
  IF out.kind = "throw" THEN [k |-> "transport", status |-> 0]
  ELSE [k |-> "http", status |-> out.status]
SyntaxError == [k |-> "syntax", status |-> 0]
TypeError == [k |-> "type", status |-> 0]
GenericError == [k |-> "generic", status |-> 0]

----------------------------------------------------------------------------
(* Retry schedule *)

\* Math.pow(2, retryCount) * BACKOFF_BASE
BackoffNextExponent(retryCount) == (2 ^ (retryCount + 1)) * BACKOFF_BASE
BackoffLinear(retryCount) == retryCount * BACKOFF_BASE
Backoff(retryCount) == (2 ^ retryCount) * BACKOFF_BASE

\* let retryCount = 0 at the start of fetchWithRetry
SharedRetryCount(tokenRetryCount) == tokenRetryCount
InitialRetryCount(tokenRetryCount) == 0

\* retryCount++
KeepRetryCount(retryCount) == retryCount
NextRetryCount(retryCount) == retryCount + 1

Ev(e, fn, ms) == [e |-> e, fn |-> fn, ms |-> ms]

----------------------------------------------------------------------------
(* Replies *)

\* JSON.stringify of an object: properties whose value is undefined are left out
Json(obj) == [key \in {x \in DOMAIN obj : obj[x].k # "undef"} |-> obj[key]]

\* NextResponse.json(obj): status 200
JsonResponse(obj) == [status |-> 200, body |-> Json(obj)]

NoReply == [status |-> 0, body |-> Json([isPlaying |-> Undef(FALSE)])]

\* Array.prototype.join: undefined and null elements become the empty string
RECURSIVE Join(_, _)
Join(names, sep) ==
  IF Len(names) = 0 THEN ""
  ELSE LET h == IF Head(names).k = "val" THEN Head(names).v ELSE ""
       IN IF Len(names) = 1 THEN h ELSE h \o sep \o Join(Tail(names), sep)

\* The destructuring of song and the object literal of the reply
ProjectionRaisesLenientItem(s) ==
  \/ s.kind = "null"
  \/ s.item.album.k # "val"
  \/ s.item.external_urls.k # "val"
  \/ s.item.album.images.k # "val"
  \/ Len(s.item.album.images.v) = 0
  \/ s.item.artists.k # "val"

ProjectionRaises(s) ==
  \/ s.kind = "null"
  \/ s.item.k # "val"
  \/ s.item.album.k # "val"
  \/ s.item.external_urls.k # "val"
  \/ s.item.album.images.k # "val"
  \/ Len(s.item.album.images.v) = 0
  \/ s.item.artists.k # "val"

Projection(s) ==
  [album |-> s.item.album.name,
   albumArtUrl |-> s.item.album.images.v[1],
   artist |-> Val(Join(s.item.artists.v, ", ")),
   isPlaying |-> s.is_playing,
   songUrl |-> s.item.external_urls.spotify,
   title |-> s.item.name,
   progress |-> s.progress_ms,
   duration |-> s.item.duration_ms]

\* The revisions of the now-playing route: part_005, and the two earlier ones
\* of part_006, which differ from each other in the fetch options only
NowPlayingRevisions == {"part_005", "part_006"}

\* The object literal of the reply in the revisions of part_006: song.progress_ms
\* and song.item.duration_ms are not read
EarlierProjection(s) ==
  [album |-> s.item.album.name,
   albumArtUrl |-> s.item.album.images.v[1],
   artist |-> Val(Join(s.item.artists.v, ", ")),
   isPlaying |-> s.is_playing,
   songUrl |-> s.item.external_urls.spotify,
   title |-> s.item.name]

\* return NextResponse.json({ isPlaying: false })
FallbackObject == [isPlaying |-> Val(FALSE)]

\* the status test of GET
StatusCheck(status) == status = 204 \/ status > 400

----------------------------------------------------------------------------
(* The handler, as functions from the state before a step to the state after *)

State ==
  [pc |-> pc, calls |-> calls, tokRetry |-> tokRetry, resRetry |-> resRetry,
   tokReqs |-> tokReqs, resReqs |-> resReqs, events |-> events,
   tokOut |-> tokOut, resOut |-> resOut, access_token |-> access_token,
   bearer |-> bearer, response |-> response, song |-> song,
   parsed |-> parsed, err |-> err, reply |-> reply, replies |-> replies,
   route |-> route]

Assign(n) ==
  /\ pc' = n.pc /\ calls' = n.calls
  /\ tokRetry' = n.tokRetry /\ resRetry' = n.resRetry
  /\ tokReqs' = n.tokReqs /\ resReqs' = n.resReqs
  /\ events' = n.events
  /\ tokOut' = n.tokOut /\ resOut' = n.resOut
  /\ access_token' = n.access_token /\ bearer' = n.bearer
  /\ response' = n.response /\ song' = n.song /\ parsed' = n.parsed
  /\ err' = n.err /\ reply' = n.reply /\ replies' = n.replies
  /\ route' = n.route
  /\ UNCHANGED <<revision, top, inv, seen, ClientVars>>

\* The catch block of GET
CatchResponse500 == [status |-> 500, body |-> Json(FallbackObject)]
CatchResponse == JsonResponse(FallbackObject)

CaughtRethrown(s, error) == [s EXCEPT !.err = error, !.pc = "crashed"]
Caught(s, error) ==
  [s EXCEPT !.err = error, !.reply = CatchResponse,
            !.replies = s.replies + 1, !.route = "catch", !.pc = "done"]

\* A return NextResponse.json(obj) of the try block of GET
Returned(s, obj, by) ==
  [s EXCEPT !.reply = JsonResponse(obj), !.replies = s.replies + 1,
            !.route = by, !.pc = "done"]

\* The loop of getAccessToken from its head to the next await
TokenLoop(s) ==
  IF s.tokRetry < MAX_ATTEMPTS
  THEN [s EXCEPT !.tokReqs = s.tokReqs + 1,
                 !.events = Append(s.events, Ev("attempt", "token", 0)),
                 !.pc = "tok_fetch"]
  ELSE Caught(s, GenericError)

\* The loop of fetchWithRetry from its head to the next await
FetchLoop(s) ==
  IF s.resRetry < MAX_ATTEMPTS
  THEN [s EXCEPT !.resReqs = s.resReqs + 1,
                 !.bearer = s.access_token,
                 !.events = Append(s.events, Ev("attempt", "resource", 0)),
                 !.pc = "res_fetch"]
  ELSE Caught(s, GenericError)

\* getAccessToken resumed by the outcome of its fetch: on a 2xx response it
\* returns the promise of response.json(), which GET awaits
TokenSettled(s, out) ==
  LET s1 == [s EXCEPT !.tokOut = [kind |-> out.kind, status |-> out.status,
                                  body |-> TokenBody("none", Undef(""))]]
  IN IF out.kind = "resp" /\ ok(out.status)
     THEN [s1 EXCEPT !.events = Append(s1.events, Ev("ok", "token", 0)),
                     !.pc = "tok_json"]
     ELSE LET rc == NextRetryCount(s1.tokRetry)
              s2 == [s1 EXCEPT !.tokRetry = rc, !.err = ErrorOf(out),
                               !.events = Append(s1.events, Ev("fail", "token", 0))]
          IN IF rc = MAX_ATTEMPTS THEN Caught(s2, ErrorOf(out))
             ELSE [s2 EXCEPT !.events = Append(s2.events, Ev("wait", "token", Backoff(rc))),
                             !.pc = "tok_wait"]

\* GET resumed by the body of the token response: the destructuring of
\* access_token and fetchWithRetry up to its fetch
TokenBodySettled(s, body) ==
  LET s2 == [s EXCEPT !.tokOut.body = body]
  IN IF body.kind = "unparseable" THEN Caught(s2, SyntaxError)
     ELSE IF body.kind = "null" THEN Caught(s2, TypeError)
     ELSE FetchLoop([s2 EXCEPT !.access_token = body.access_token,
                               !.resRetry = InitialRetryCount(s2.tokRetry)])

\* fetchWithRetry resumed by the outcome of its fetch, and GET after it
FetchSettled(s, out) ==
  LET s1 == [s EXCEPT !.resOut = out]
  IN IF out.kind = "resp" /\ ok(out.status)
     THEN LET s2 == [s1 EXCEPT !.events = Append(s1.events, Ev("ok", "resource", 0)),
                               !.response = [status |-> out.status]]
          IN IF StatusCheck(out.status)
             THEN Returned(s2, FallbackObject, "status_check")
             ELSE [s2 EXCEPT !.parsed = TRUE, !.pc = "res_json"]
     ELSE LET rc == NextRetryCount(s1.resRetry)
              s2 == [s1 EXCEPT !.resRetry = rc, !.err = ErrorOf(out),
                               !.events = Append(s1.events, Ev("fail", "resource", 0))]
          IN IF rc = MAX_ATTEMPTS THEN Caught(s2, ErrorOf(out))
             ELSE [s2 EXCEPT !.events = Append(s2.events, Ev("wait", "resource", Backoff(rc))),
                             !.pc = "res_wait"]

\* GET of revision rev resumed by response.json()
SongSettled(rev, s, body) ==
  LET s1 == [s EXCEPT !.song = body]
  IN IF body.kind = "unparseable" THEN Caught(s1, SyntaxError)
     ELSE IF ProjectionRaises(body) THEN Caught(s1, TypeError)
     ELSE IF rev = "part_005" THEN Returned(s1, Projection(body), "normalized")
     ELSE Returned(s1, EarlierProjection(body), "normalized")

----------------------------------------------------------------------------
(* Specification *)

NoTokOut == [kind |-> "none", status |-> 0, body |-> TokenBody("none", Undef(""))]

Fresh(c) ==
  [pc |-> "idle", calls |-> c, tokRetry |-> 0, resRetry |-> 0, tokReqs |-> 0,
   resReqs |-> 0, events |-> <<>>, tokOut |-> NoTokOut, resOut |-> NoOutcome,
   access_token |-> Undef(""), bearer |-> Undef(""),
   response |-> [status |-> 0], song |-> NoSong, parsed |-> FALSE,
   err |-> NoError, reply |-> NoReply, replies |-> 0, route |-> "none"]

\* No invocation of the now-playing handler has started; rev is deployed
NowPlayingIdle(rev) ==
  /\ revision = rev
  /\ pc = "idle" /\ calls = 0
  /\ tokRetry = 0 /\ resRetry = 0 /\ tokReqs = 0 /\ resReqs = 0
  /\ events = <<>>
  /\ tokOut = NoTokOut /\ resOut = NoOutcome
  /\ access_token = Undef("") /\ bearer = Undef("")
  /\ response = [status |-> 0] /\ song = NoSong /\ parsed = FALSE
  /\ err = NoError /\ reply = NoReply /\ replies = 0 /\ route = "none"

NowPlayingVars ==
  <<pc, calls, tokRetry, resRetry, tokReqs, resReqs, events, tokOut, resOut,
    access_token, bearer, response, song, parsed, err, reply, replies, route,
    revision>>

Invocations == {1, 2}

\* process.env: the three credentials
Credentials(id, secret, refresh) ==
  [CLIENT_ID |-> id, CLIENT_SECRET |-> secret, REFRESH_TOKEN |-> refresh]
FullCredentials == Credentials(Val("id"), Val("secret"), Val("refresh"))

NoRequest ==
  [authorization |-> [base64of |-> ""], grant_type |-> "", refresh_token |-> ""]
NoTopOut == [kind |-> "none", status |-> 0,
             body |-> [kind |-> "none", items |-> Undef(<<>>)]]
NoTopReply == [status |-> 0, body |-> Json([topTracks |-> Undef(<<>>)])]

\* The top-tracks handler of revision rev before a request arrives
FreshTop(rev, creds) ==
  [rev |-> rev, creds |-> creds, pc |-> "idle", request |-> NoRequest,
   tokOut |-> NoTokOut, access_token |-> Undef(""), bearer |-> Undef(""),
   issued |-> {}, pending |-> {}, order |-> <<>>,
   outs |-> [tracks |-> NoTopOut, artists |-> NoTopOut],
   err |-> NoError, reply |-> NoTopReply, replies |-> 0, route |-> "none"]

TopIdle == top = FreshTop("route.ts", FullCredentials)
InterleavedIdle ==
  /\ inv = [i \in Invocations |-> Fresh(0)]
  /\ seen = [i \in Invocations |-> <<>>]

\* const skills
skills ==
  <<"TypeScript", "React", "Node.js", "Python", "AWS", "Docker", "GraphQL",
    "MongoDB">>

\* SkillTyper before it is mounted: useState([]), nextIdRef, lastSkillIndexRef.
\* active is the prop of the last render and rendered the popups it showed;
\* effects tells whether the passive effects of that render have yet to run;
\* live says an auto effect and a click listener are installed, and captured
\* is the popups value they close over; stale says a setPopups was called
\* that no render has applied; timers are the running popup timers,
\* autoTimers the auto-spawn timers of the live effect that may fire, orphan
\* a staggered timer of an effect already cleaned up; saw is the visibleSkills
\* of the last call of spawnSkill that passed its tests; spawned counts the
\* popups of the run and limit bounds them.
FreshTyper ==
  [mounted |-> FALSE, active |-> FALSE, popups |-> <<>>, rendered |-> <<>>,
   captured |-> <<>>, stale |-> FALSE, effects |-> "none", live |-> FALSE,
   nextId |-> 0, lastSkillIndex |-> -1,
   timers |-> <<>>, autoTimers |-> 0, orphan |-> FALSE, saw |-> {},
   spawned |-> 0, limit |-> 0, fallback |-> FALSE]

\* SkillTyper at rest with active = false, after n popups were spawned one
\* after the other and removed
RestingTyper(n) ==
  [FreshTyper EXCEPT !.mounted = TRUE, !.nextId = n,
                     !.lastSkillIndex = (n - 1) % Len(skills)]

TyperIdle == typer = FreshTyper

\* The NowPlaying widget before it is mounted: useState({ isPlaying: false }),
\* useState(0); no poll started, no progress interval running
\* data and localProgress are the React state with every update applied;
\* rendered is the data of the last render and effects tells whether the
\* passive effects of that render have yet to run; duration is the
\* data.duration the installed progress interval closed over and ticking
\* tells whether that interval exists; stale: setData was called since the
\* last render; lateTick: the interval fired since then; polls are the calls
\* of fetchData in the order they started, shown the one whose setData ran
\* last.
FreshWidget ==
  [mounted |-> FALSE, data |-> Json([isPlaying |-> Val(FALSE)]),
   rendered |-> Json([isPlaying |-> Val(FALSE)]), effects |-> "none",
   localProgress |-> 0, duration |-> 0, ticking |-> FALSE,
   stale |-> FALSE, lateTick |-> FALSE, polls |-> <<>>, shown |-> 0]

WidgetIdle == widget = FreshWidget
ClientIdle == TyperIdle /\ WidgetIdle

Init ==
  /\ \E rev \in NowPlayingRevisions : NowPlayingIdle(rev)
  /\ TopIdle /\ InterleavedIdle /\ ClientIdle

\* A request arrives: GET runs up to the first fetch of getAccessToken
Invoke ==
  /\ pc \in {"idle", "done"}
  /\ calls < MaxCalls
  /\ Assign(TokenLoop(Fresh(calls + 1)))

\* The token endpoint answers, or the request fails
TokenResponse ==
  /\ pc = "tok_fetch"
  /\ \E out \in Outcomes : Assign(TokenSettled(State, out))

\* The body of the token response has been read
TokenParsed ==
  /\ pc = "tok_json"
  /\ \E body \in TokenBodies : Assign(TokenBodySettled(State, body))

\* The backoff timer of getAccessToken fires
TokenBackoffDone ==
  /\ pc = "tok_wait"
  /\ Assign(TokenLoop(State))

\* The currently-playing endpoint answers, or the request fails
ResourceResponse ==
  /\ pc = "res_fetch"
  /\ \E out \in Outcomes : Assign(FetchSettled(State, out))

\* The backoff timer of fetchWithRetry fires
ResourceBackoffDone ==
  /\ pc = "res_wait"
  /\ Assign(FetchLoop(State))

\* The body of the currently-playing response has been read
SongParsed ==
  /\ pc = "res_json"
  /\ \E body \in Songs : Assign(SongSettled(revision, State, body))

Next ==
  \/ Invoke
  \/ TokenResponse
  \/ TokenParsed
  \/ TokenBackoffDone
  \/ ResourceResponse
  \/ ResourceBackoffDone
  \/ SongParsed

Spec == Init /\ [][Next]_vars

\* Every fetch settles, every timer fires and every body read completes
SpecLive ==
  /\ Init /\ [][Next]_vars
  /\ WF_vars(TokenResponse) /\ WF_vars(TokenParsed)
  /\ WF_vars(TokenBackoffDone)
  /\ WF_vars(ResourceResponse) /\ WF_vars(ResourceBackoffDone)
  /\ WF_vars(SongParsed)

----------------------------------------------------------------------------
(* The top-tracks handler: route.ts (tracks only), part_004 (tracks and     *)
(* artists in parallel), part_003 (tracks only, with the response.ok tests) *)

TopRevisions == {"route.ts", "part_004", "part_003"}

CredentialSets ==
  {FullCredentials,
   [FullCredentials EXCEPT !.CLIENT_ID = Undef("")],
   [FullCredentials EXCEPT !.CLIENT_SECRET = Undef("")],
   [FullCredentials EXCEPT !.REFRESH_TOKEN = Undef("")]}

\* `${x}` and URLSearchParams: undefined becomes the string "undefined"
Template(x) ==
  IF x.k = "undef" THEN "undefined" ELSE IF x.k = "null" THEN "null" ELSE x.v

\* Buffer.from(`${CLIENT_ID}:${CLIENT_SECRET}`).toString('base64')
basic(c) ==
  [base64of |-> Template(c.CLIENT_ID) \o ":" \o Template(c.CLIENT_SECRET)]

\* The POST of getAccessToken
TokenRequest(c) ==
  [authorization |-> basic(c), grant_type |-> "refresh_token",
   refresh_token |-> Template(c.REFRESH_TOKEN)]

\* Upstream: statuses and bodies of the token and top endpoints
TopStatuses == {200, 400, 500}
TopBody(kind, items) == [kind |-> kind, items |-> items]
ItemSeqs == UNION {[1..n -> {"1", "2"}] : n \in 0..MaxItems}
TopErrorBodies ==
  {TopBody("unparseable", Undef(<<>>)), TopBody("object", Undef(<<>>))}
TopBodies ==
  TopErrorBodies
  \cup {TopBody("null", Undef(<<>>)), TopBody("object", Null(<<>>))}
  \cup {TopBody("object", Val(is)) : is \in ItemSeqs}
TopResult(out, body) == [kind |-> out.kind, status |-> out.status, body |-> body]

\* The token endpoint accepts only a request made of the three credentials; an
\* error response carries no access_token; any request may fail in transport
TokenErrorBodies ==
  {TokenBody("unparseable", Undef("")), TokenBody("object", Undef(""))}
TokenResultsFor(request) ==
  {TopResult(Throw, TokenBody("none", Undef("")))}
  \cup {TopResult(Resp(400), b) : b \in TokenErrorBodies}
  \cup IF request = TokenRequest(FullCredentials)
       THEN {TopResult(Resp(500), b) : b \in TokenErrorBodies}
            \cup {TopResult(Resp(200), b) : b \in TokenBodies}
       ELSE {}

\* The top endpoints answer a request without a token with an error
TopResultsFor(token) ==
  {TopResult(Throw, TopBody("none", Undef(<<>>)))}
  \cup {TopResult(Resp(s), b) : s \in {400, 500}, b \in TopErrorBodies}
  \cup IF token.k = "val"
       THEN {TopResult(Resp(200), b) : b \in TopBodies}
       ELSE {}

\* part_003 tests response.ok, the other revisions do not
ChecksOk(rev) == rev = "part_003"

\* The requests GET sends once it has the token
SequentialRequests(rev) == {"tracks"}
ResourceRequests(rev) ==
  IF rev = "part_004" THEN {"tracks", "artists"} ELSE {"tracks"}

\* tracksData.items
Reversed(is) == [i \in 1..Len(is) |-> is[Len(is) + 1 - i]]
ItemsReversed(data) == [data.items EXCEPT !.v = Reversed(@)]
ItemsOf(data) == data.items

\* The object of the catch block
TopFallback(rev) ==
  IF rev = "part_004"
  THEN [topTracks |-> Val(<<>>), topArtists |-> Val(<<>>)]
  ELSE [topTracks |-> Val(<<>>)]

TopCaught(t, error) ==
  [t EXCEPT !.err = error, !.reply = JsonResponse(TopFallback(t.rev)),
            !.replies = t.replies + 1, !.route = "catch", !.pc = "done"]

TopReturned(t, obj) ==
  [t EXCEPT !.reply = JsonResponse(obj), !.replies = t.replies + 1,
            !.route = "returned", !.pc = "done"]

\* GET up to the fetch of getAccessToken
TopInvoked(t) ==
  [t EXCEPT !.request = TokenRequest(t.creds), !.pc = "tok_fetch"]

\* getAccessToken resumed by its fetch: it returns the promise of
\* response.json(), which GET awaits
TopTokenSettled(t, res) ==
  LET t1 == [t EXCEPT !.tokOut = res]
  IN IF res.kind = "throw" THEN TopCaught(t1, ErrorOf(res))
     ELSE IF ChecksOk(t.rev) /\ ~ok(res.status) THEN TopCaught(t1, ErrorOf(res))
     ELSE [t1 EXCEPT !.pc = "tok_json"]

\* GET resumed by the body of the token response, up to its next await
TopTokenBodySettled(t) ==
  IF t.tokOut.body.kind = "unparseable" THEN TopCaught(t, SyntaxError)
  ELSE IF t.tokOut.body.kind = "null" THEN TopCaught(t, TypeError)
  ELSE [t EXCEPT !.access_token = t.tokOut.body.access_token,
                 !.bearer = t.tokOut.body.access_token,
                 !.issued = ResourceRequests(t.rev),
                 !.pending = ResourceRequests(t.rev),
                 !.pc = "res_fetch"]

\* data.items raises when the body read by res.json() is not an object
TopParseRaises(res) == res.body.kind # "object"

\* GET once every response it awaits has arrived, up to tracksRes.json()
TopRespond(t) ==
  IF ChecksOk(t.rev) /\ ~ok(t.outs.tracks.status)
  THEN TopCaught(t, ErrorOf(t.outs.tracks))
  ELSE [t EXCEPT !.pc = "json_tracks"]

\* The object of the reply; the items are read in the order of its properties
TopReplied(t) ==
  IF TopParseRaises(t.outs.tracks) THEN TopCaught(t, TypeError)
  ELSE IF t.rev # "part_004"
  THEN TopReturned(t, [topTracks |-> ItemsOf(t.outs.tracks.body)])
  ELSE IF TopParseRaises(t.outs.artists) THEN TopCaught(t, TypeError)
  ELSE TopReturned(t, [topTracks |-> ItemsOf(t.outs.tracks.body),
                       topArtists |-> ItemsOf(t.outs.artists.body)])

\* GET resumed by tracksRes.json()
TopTracksBodySettled(t) ==
  IF t.outs.tracks.body.kind = "unparseable" THEN TopCaught(t, SyntaxError)
  ELSE IF t.rev = "part_004" THEN [t EXCEPT !.pc = "json_artists"]
  ELSE TopReplied(t)

\* GET of part_004 resumed by artistsRes.json()
TopArtistsBodySettled(t) ==
  IF t.outs.artists.body.kind = "unparseable" THEN TopCaught(t, SyntaxError)
  ELSE TopReplied(t)

\* The fetch of one top endpoint settles: await fetch, or Promise.all
TopArrived(t, name, res) ==
  LET t1 == [t EXCEPT !.outs[name] = res, !.pending = t.pending \ {name},
                      !.order = Append(t.order, name)]
  IN IF t.pc = "done" THEN t1
     ELSE IF res.kind = "throw" THEN TopCaught(t1, ErrorOf(res))
     ELSE IF t1.pending # {} THEN t1
     ELSE TopRespond(t1)

InitTop ==
  /\ NowPlayingIdle("part_005") /\ InterleavedIdle /\ ClientIdle
  /\ top \in {FreshTop(rev, c) : rev \in TopRevisions, c \in CredentialSets}

TopInvoke ==
  /\ top.pc = "idle"
  /\ top' = TopInvoked(top)
  /\ UNCHANGED <<NowPlayingVars, inv, seen, ClientVars>>

TopTokenResponse ==
  /\ top.pc = "tok_fetch"
  /\ \E res \in TokenResultsFor(top.request) : top' = TopTokenSettled(top, res)
  /\ UNCHANGED <<NowPlayingVars, inv, seen, ClientVars>>

\* The body of the token response has been read
TopTokenParsed ==
  /\ top.pc = "tok_json"
  /\ top' = TopTokenBodySettled(top)
  /\ UNCHANGED <<NowPlayingVars, inv, seen, ClientVars>>

TopResourceResponse ==
  /\ \E name \in top.pending, res \in TopResultsFor(top.bearer) :
       top' = TopArrived(top, name, res)
  /\ UNCHANGED <<NowPlayingVars, inv, seen, ClientVars>>

\* The body of the top-tracks response has been read
TopTracksParsed ==
  /\ top.pc = "json_tracks"
  /\ top' = TopTracksBodySettled(top)
  /\ UNCHANGED <<NowPlayingVars, inv, seen, ClientVars>>

\* The body of the top-artists response has been read
TopArtistsParsed ==
  /\ top.pc = "json_artists"
  /\ top' = TopArtistsBodySettled(top)
  /\ UNCHANGED <<NowPlayingVars, inv, seen, ClientVars>>

NextTop ==
  \/ TopInvoke
  \/ TopTokenResponse
  \/ TopTokenParsed
  \/ TopResourceResponse
  \/ TopTracksParsed
  \/ TopArtistsParsed

SpecTop == InitTop /\ [][NextTop]_vars

----------------------------------------------------------------------------
(* Interleaved invocations of the now-playing handler: each invocation is   *)
(* suspended at its awaits and resumed by its own responses and timers.     *)

\* What the invocations are resumed with
NoTokenBody == TokenBody("none", Undef(""))
ConcTokenBodies == {TokenBody("object", Val("tokA"))}
ConcOutcomes == {Throw, Resp(200), Resp(204), Resp(500)}
ConcSongs ==
  {BaseSong,
   [BaseSong EXCEPT !.progress_ms = Val(0)]}

Input(kind, out, tbody, sbody) ==
  [kind |-> kind, out |-> out, tbody |-> tbody, sbody |-> sbody]
TokenInput(out) == Input("token", out, NoTokenBody, NoSong)
TokenBodyInput(body) == Input("tokbody", NoOutcome, body, NoSong)
ResourceInput(out) == Input("resource", out, NoTokenBody, NoSong)
SongInput(body) == Input("song", NoOutcome, NoTokenBody, body)
TimerInput == Input("timer", NoOutcome, NoTokenBody, NoSong)
ConcTokenInputs == {TokenInput(out) : out \in {Throw, Resp(404), Resp(200)}}

\* The invocation in state s resumed with one input
Resume(s, in) ==
  CASE in.kind = "token" -> TokenSettled(s, in.out)
    [] in.kind = "tokbody" -> TokenBodySettled(s, in.tbody)
    [] in.kind = "resource" -> FetchSettled(s, in.out)
    [] in.kind = "song" -> SongSettled("part_005", s, in.sbody)
    [] OTHER -> IF s.pc = "tok_wait" THEN TokenLoop(s) ELSE FetchLoop(s)

\* retryCount, access_token and the other locals live in the frame of their
\* own call: a step of invocation i writes the state of i only
CommitSharedRetry(f, i, n) ==
  [j \in DOMAIN f |->
     IF j = i THEN n
     ELSE [f[j] EXCEPT !.tokRetry = n.tokRetry, !.resRetry = n.resRetry]]
Commit(f, i, n) == [f EXCEPT ![i] = n]

InitConc ==
  /\ NowPlayingIdle("part_005") /\ TopIdle /\ InterleavedIdle /\ ClientIdle

ConcStep(i, n, in) ==
  /\ inv' = Commit(inv, i, n)
  /\ seen' = [seen EXCEPT ![i] = Append(seen[i], in)]
  /\ UNCHANGED <<NowPlayingVars, top, ClientVars>>

ConcInvoke ==
  \E i \in Invocations :
    /\ inv[i].pc = "idle"
    /\ inv' = Commit(inv, i, TokenLoop(Fresh(1)))
    /\ UNCHANGED <<NowPlayingVars, top, seen, ClientVars>>

ConcTokenResponse ==
  \E i \in Invocations, in \in ConcTokenInputs :
    /\ inv[i].pc = "tok_fetch"
    /\ ConcStep(i, Resume(inv[i], in), in)

ConcTokenParsed ==
  \E i \in Invocations, body \in ConcTokenBodies :
    /\ inv[i].pc = "tok_json"
    /\ ConcStep(i, Resume(inv[i], TokenBodyInput(body)), TokenBodyInput(body))

ConcBackoffDone ==
  \E i \in Invocations :
    /\ inv[i].pc \in {"tok_wait", "res_wait"}
    /\ ConcStep(i, Resume(inv[i], TimerInput), TimerInput)

ConcResourceResponse ==
  \E i \in Invocations, out \in ConcOutcomes :
    /\ inv[i].pc = "res_fetch"
    /\ ConcStep(i, Resume(inv[i], ResourceInput(out)), ResourceInput(out))

ConcSongParsed ==
  \E i \in Invocations, body \in ConcSongs :
    /\ inv[i].pc = "res_json"
    /\ ConcStep(i, Resume(inv[i], SongInput(body)), SongInput(body))

NextConc ==
  \/ ConcInvoke
  \/ ConcTokenResponse
  \/ ConcTokenParsed
  \/ ConcBackoffDone
  \/ ConcResourceResponse
  \/ ConcSongParsed

SpecConc == InitConc /\ [][NextConc]_vars

----------------------------------------------------------------------------
(* SkillTyper: popups spawned by clicks and by the auto-spawn timers.       *)
(* React applies the updaters passed to setPopups in the order of the       *)
(* calls, so popups is the state with every update so far applied; the      *)
(* installed callbacks read captured, the value of the render whose effects *)
(* installed them. A render commits first and its passive effects run in a  *)
(* later step. Positions are kept only as the answer of isInSafeZone.       *)

MaxLiveSpawns == 2
MaxBurstSpawns == 9
\* Popups spawned and removed before the run starts, when it starts mounted
StartSpawns == {7}

Popup(id, text, auto) ==
  [id |-> id, text |-> text, opacity |-> 1, displayText |-> "", auto |-> auto]

\* skill.slice(0, n)
slice(skill, n) == SubSeq(skill, 1, IF n < Len(skill) THEN n ELSE Len(skill))

\* What the callbacks read of the popups they close over: text and auto
Captured(ps) == [i \in DOMAIN ps |-> [text |-> ps[i].text, auto |-> ps[i].auto]]

\* popups.filter(p => p.auto).length
autoCount(ps) == Len(SelectSeq(ps, LAMBDA p : p.auto))

\* popups.map(p => p.text), as the set that includes() searches
visibleSkillsOf(ps) == {ps[i].text : i \in DOMAIN ps}

\* getNextSkill: the first index after lastSkillIndexRef.current, cyclically,
\* whose skill is not visible; after the loop, the next index whatever it is
getNextSkill(visibleSkills, last) ==
  LET n == Len(skills)
      free == {i \in 1..n : skills[((last + i) % n) + 1] \notin visibleSkills}
      idx == IF free = {} THEN (last + 1) % n
             ELSE (last + (CHOOSE i \in free : \A j \in free : i <= j)) % n
  IN [index |-> idx, skill |-> skills[idx + 1], fallback |-> free = {}]

\* spawnSkill(x, y, auto) up to the start of its interval
spawnSkill(k, inSafeZone, auto) ==
  IF auto /\ autoCount(k.captured) >= 2 THEN k
  ELSE IF Len(k.captured) >= 4 THEN k
  ELSE IF inSafeZone THEN k
  ELSE LET next == getNextSkill(visibleSkillsOf(k.captured), k.lastSkillIndex)
           id == k.nextId
       IN [k EXCEPT !.lastSkillIndex = next.index,
                    !.nextId = id + 1,
                    !.popups = Append(k.popups, Popup(id, next.skill, auto)),
                    !.stale = TRUE,
                    !.saw = visibleSkillsOf(k.captured),
                    !.timers = (id :> [skill |-> next.skill, charIndex |-> 0,
                                       stage |-> "typing"]) @@ k.timers,
                    !.spawned = k.spawned + 1,
                    !.fallback = k.fallback \/ next.fallback]

\* scheduleAutoSkill up to its setTimeout; isUnmounted is the flag of the
\* effect that defined it
scheduleAutoSkillUnguarded(k, isUnmounted, inSafeZone) ==
  IF autoCount(k.captured) < 2 /\ Len(k.captured) < 4
  THEN spawnSkill(k, inSafeZone, TRUE)
  ELSE k
scheduleAutoSkill(k, isUnmounted, inSafeZone) ==
  IF isUnmounted THEN k
  ELSE IF autoCount(k.captured) < 2 /\ Len(k.captured) < 4
  THEN spawnSkill(k, inSafeZone, TRUE)
  ELSE k

\* The commit of a render with the prop active = act that shows the popups
\* cap; pending says updates are left for a later render. The passive effects
\* of the render have not run yet: the handlers of the previous effects stay
\* installed.
Committed(k, act, cap, pending) ==
  [k EXCEPT !.mounted = TRUE, !.active = act, !.rendered = cap,
            !.stale = pending,
            !.effects = IF k.mounted THEN "update" ELSE "mount"]

\* A render that applies every update made so far
Rendered(k, act) == Committed(k, act, Captured(k.popups), FALSE)

\* The passive effects of the last render. The clean-ups come first: the one
\* of the auto effect sets isUnmounted and stops the timers in autoTimers
\* (not its first staggered one), the one of the click effect removes the
\* listener. Then the effect on [active] clears the popups when active has
\* become false, and when active is true a new auto effect calls
\* scheduleAutoSkill and starts two timers and a new listener is added. A
\* timer started while an update is pending does not fire before the render
\* of that update, whose effects replace it.
Flushed(k, inSafeZone) ==
  LET k1 == [k EXCEPT !.captured = k.rendered, !.effects = "none",
                      !.live = k.active, !.autoTimers = 0,
                      !.orphan = k.orphan \/ k.live]
      k2 == IF ~k.active /\ (k.effects = "mount" \/ k.live)
            THEN [k1 EXCEPT !.popups = <<>>, !.stale = TRUE]
            ELSE k1
      k3 == IF k.active THEN scheduleAutoSkill(k2, FALSE, inSafeZone) ELSE k2
  IN [k3 EXCEPT !.autoTimers = IF k.active /\ ~k3.stale THEN 2 ELSE 0]

\* One tick of the typing interval of popup id. The updater passed to
\* setPopups reads charIndex when React runs it: at once (eager) when no
\* update of the component is pending, otherwise at the next render, after
\* charIndex++ has run.
typeTick(k, id, eager) ==
  LET t == k.timers[id]
      c == t.charIndex + 1
      read == IF eager THEN t.charIndex ELSE c
  IN [k EXCEPT
        !.popups = [i \in DOMAIN k.popups |->
                      IF k.popups[i].id = id
                      THEN [k.popups[i] EXCEPT !.displayText = slice(t.skill, read + 1)]
                      ELSE k.popups[i]],
        !.stale = TRUE,
        !.timers[id] = [t EXCEPT !.charIndex = c,
                                 !.stage = IF c >= Len(t.skill) THEN "fade"
                                           ELSE "typing"]]

\* The fade-out timeout of popup id
fadeOut(k, id) ==
  [k EXCEPT
     !.popups = [i \in DOMAIN k.popups |->
                   IF k.popups[i].id = id
                   THEN [k.popups[i] EXCEPT !.opacity = 0]
                   ELSE k.popups[i]],
     !.stale = TRUE,
     !.timers[id].stage = "remove"]

\* The removal timeout of popup id
removePopup(k, id) ==
  [k EXCEPT
     !.popups = SelectSeq(k.popups, LAMBDA popup : popup.id # id),
     !.stale = TRUE,
     !.timers = [i \in DOMAIN k.timers \ {id} |-> k.timers[i]]]

\* handleGlobalClick, and the synchronous render React makes before the next
\* task when the click has set the state: effects still pending run first,
\* and the effects of the new render run with its commit. With priority
\* lanes (lanes = TRUE) that render applies the update of the click only:
\* updates made by timers or effects since the last render stay pending, so
\* it shows the popups of the last render and the new one. Without them it
\* applies every pending update.
handleGlobalClick(k, inSafeZone, lanes, flushInSafeZone, nextInSafeZone) ==
  IF Len(k.captured) >= 4 THEN k
  ELSE IF inSafeZone THEN k
  ELSE LET k1 == spawnSkill(k, inSafeZone, FALSE)
           new == Captured(SelectSeq(k1.popups, LAMBDA p : p.id = k.nextId))
           k2 == IF k1.effects # "none" THEN Flushed(k1, flushInSafeZone)
                 ELSE k1
           skipped == lanes /\ (k.stale \/ k2.popups # k1.popups)
       IN IF k1.nextId = k.nextId THEN k1
          ELSE Flushed(Committed(k2, k2.active,
                                 IF skipped THEN k.rendered \o new
                                 ELSE Captured(k2.popups),
                                 skipped),
                       nextInSafeZone)

\* Answers of isInSafeZone for the position of a click, or for the position
\* getRandomAllowedPosition returns (its last resort may be in a safe zone)
Zones(k) == IF k.spawned < k.limit THEN BOOLEAN ELSE {TRUE}

OtherVars == <<NowPlayingVars, top, inv, seen, widget>>

\* The first render
TyperMount ==
  /\ ~typer.mounted
  /\ \E act \in BOOLEAN : typer' = Rendered(typer, act)
  /\ UNCHANGED OtherVars

\* The parent renders with the other value of active
TyperSetActive ==
  /\ typer.mounted /\ typer.effects = "none"
  /\ typer' = Rendered(typer, ~typer.active)
  /\ UNCHANGED OtherVars

\* The render of the pending updates
TyperRender ==
  /\ typer.mounted /\ typer.stale /\ typer.effects = "none"
  /\ typer' = Rendered(typer, typer.active)
  /\ UNCHANGED OtherVars

\* The passive effects of the last render run
TyperEffects ==
  /\ typer.effects # "none"
  /\ \E z \in Zones(typer) : typer' = Flushed(typer, z)
  /\ UNCHANGED OtherVars

\* A timer of the installed auto effect fires
TyperAutoTimer ==
  /\ typer.live /\ typer.autoTimers > 0
  /\ \E z \in Zones(typer) :
       LET k == scheduleAutoSkill(typer, FALSE, z)
       IN typer' = IF k.nextId # typer.nextId
                   THEN [k EXCEPT !.autoTimers = typer.autoTimers - 1]
                   ELSE k
  /\ UNCHANGED OtherVars

\* The staggered timer of an effect that was cleaned up fires
TyperOrphanTimer ==
  /\ typer.orphan
  /\ \E z \in Zones(typer) :
       typer' = [scheduleAutoSkill(typer, TRUE, z) EXCEPT !.orphan = FALSE]
  /\ UNCHANGED OtherVars

\* A click reaches the installed listener
TyperClick ==
  /\ typer.live
  /\ \E z \in Zones(typer), lanes \in BOOLEAN :
       LET k1 == spawnSkill(typer, z, FALSE)
       IN \E z1 \in Zones(k1) :
            LET k2 == IF k1.effects # "none" THEN Flushed(k1, z1) ELSE k1
            IN \E z2 \in Zones(k2) :
                 typer' = handleGlobalClick(typer, z, lanes, z1, z2)
  /\ UNCHANGED OtherVars

\* React may compute the state eagerly only when no update is pending
Eagerness(k) == IF k.stale THEN {FALSE} ELSE BOOLEAN

TyperTick ==
  /\ \E id \in DOMAIN typer.timers :
       /\ typer.timers[id].stage = "typing"
       /\ \E eager \in Eagerness(typer) : typer' = typeTick(typer, id, eager)
  /\ UNCHANGED OtherVars

TyperFade ==
  /\ \E id \in DOMAIN typer.timers :
       /\ typer.timers[id].stage = "fade"
       /\ typer' = fadeOut(typer, id)
  /\ UNCHANGED OtherVars

TyperRemove ==
  /\ \E id \in DOMAIN typer.timers :
       /\ typer.timers[id].stage = "remove"
       /\ typer' = removePopup(typer, id)
  /\ UNCHANGED OtherVars

NextTyper ==
  \/ TyperMount
  \/ TyperSetActive
  \/ TyperRender
  \/ TyperEffects
  \/ TyperAutoTimer
  \/ TyperOrphanTimer
  \/ TyperClick
  \/ TyperTick
  \/ TyperFade
  \/ TyperRemove

InitTyperLive ==
  /\ NowPlayingIdle("part_005") /\ TopIdle /\ InterleavedIdle /\ WidgetIdle
  /\ typer \in {[k EXCEPT !.limit = MaxLiveSpawns] :
                  k \in {FreshTyper} \cup {RestingTyper(n) : n \in StartSpawns}}

\* The popup timers keep firing
SpecTyperLive ==
  /\ InitTyperLive /\ [][NextTyper]_vars
  /\ WF_vars(TyperTick) /\ WF_vars(TyperFade) /\ WF_vars(TyperRemove)

\* A burst of renders, clicks and auto-spawn timers within one period of the
\* typing intervals: no popup timer fires
InitTyperBurst ==
  /\ NowPlayingIdle("part_005") /\ TopIdle /\ InterleavedIdle /\ WidgetIdle
  /\ typer = [FreshTyper EXCEPT !.limit = MaxBurstSpawns]

NextTyperBurst ==
  \/ TyperMount
  \/ TyperSetActive
  \/ TyperRender
  \/ TyperEffects
  \/ TyperAutoTimer
  \/ TyperOrphanTimer
  \/ TyperClick

SpecTyperBurst == InitTyperBurst /\ [][NextTyperBurst]_vars

----------------------------------------------------------------------------
(* The NowPlaying widget (NowPlaying.tsx): polls /api/spotify and advances
   a local progress counter between polls. *)

MaxPolls == 3
PROGRESS_UPDATE_INTERVAL == 1000

\* Bodies of /api/spotify: the fallback object, or the projection of one of
\* two tracks at the start of the track or later in it
WidgetSongs ==
  {[BaseSong EXCEPT !.progress_ms = Val(p), !.item.duration_ms = Val(4000)] :
     p \in {0, 3000}}
  \cup
  {[BaseSong EXCEPT !.progress_ms = Val(p), !.item.duration_ms = Val(2000),
                    !.item.name = Val("Other")] : p \in {0, 1000}}

WidgetBodies ==
  {Json(FallbackObject)} \cup {Json(Projection(s)) : s \in WidgetSongs}

\* data.isPlaying, data.progress, data.duration used as conditions
Playing(d) == d.isPlaying.k = "val" /\ d.isPlaying.v
NumberOf(d, key) ==
  IF key \in DOMAIN d /\ d[key].k = "val" THEN d[key].v ELSE 0
TruthyNumber(d, key) == NumberOf(d, key) # 0

Poll(stage, body) == [stage |-> stage, body |-> body]
NoBody == Json(FallbackObject)

\* fetchData: fetch('/api/spotify') is issued
fetchData(w) == [w EXCEPT !.polls = Append(@, Poll("fetch", NoBody))]

\* fetchData of poll i after response.json() resolved with body
fetchDataResolved(w, i, body) ==
  [w EXCEPT !.polls[i] = Poll("done", body),
            !.data = body,
            !.localProgress =
              IF TruthyNumber(body, "progress")
              THEN NumberOf(body, "progress") ELSE @,
            !.stale = TRUE,
            !.shown = i]

\* fetchData of poll i when an await rejected: the catch block logs
fetchDataFailed(w, i) == [w EXCEPT !.polls[i] = Poll("failed", NoBody)]

\* The callback of the progress interval, with the duration it closed over
progressTick(w) ==
  LET next == w.localProgress + PROGRESS_UPDATE_INTERVAL
  IN [w EXCEPT !.localProgress = IF next >= w.duration THEN w.duration ELSE next,
               !.lateTick = w.stale \/ w.effects # "none"]

\* The commit of a render: the interval of the previous progress effect stays
\* installed until the effects run
WidgetRendered(w) ==
  [w EXCEPT !.mounted = TRUE, !.rendered = w.data, !.stale = FALSE,
            !.effects = IF w.mounted THEN "update" ELSE "mount"]

\* The passive effects of the last render: after the first render the poll
\* effect calls fetchData() and starts its interval; the progress effect
\* clears its previous interval and starts one when the rendered data has
\* isPlaying, progress and duration
WidgetEffectsRun(w) ==
  LET w1 == IF w.effects = "mount" THEN fetchData(w) ELSE w
  IN [w1 EXCEPT !.effects = "none",
                !.ticking = /\ Playing(w.rendered)
                            /\ TruthyNumber(w.rendered, "progress")
                            /\ TruthyNumber(w.rendered, "duration"),
                !.duration = NumberOf(w.rendered, "duration"),
                !.lateTick = FALSE]

WidgetOtherVars == <<NowPlayingVars, top, inv, seen, typer>>

InitWidget ==
  NowPlayingIdle("part_005") /\ TopIdle /\ InterleavedIdle /\ TyperIdle /\ WidgetIdle

\* First render
WidgetMount ==
  /\ ~widget.mounted
  /\ widget' = WidgetRendered(widget)
  /\ UNCHANGED WidgetOtherVars

\* The passive effects of the last render run
WidgetEffects ==
  /\ widget.effects # "none"
  /\ widget' = WidgetEffectsRun(widget)
  /\ UNCHANGED WidgetOtherVars

\* setInterval(fetchData, SPOTIFY_UPDATE_INTERVAL) fires, whatever the state
\* of the earlier polls
WidgetPollTimer ==
  /\ Len(widget.polls) >= 1 /\ Len(widget.polls) < MaxPolls
  /\ widget' = fetchData(widget)
  /\ UNCHANGED WidgetOtherVars

\* await fetch(...) of a poll settles
WidgetResponse ==
  /\ \E i \in DOMAIN widget.polls :
       /\ widget.polls[i].stage = "fetch"
       /\ \E rejected \in BOOLEAN :
            widget' = IF rejected THEN fetchDataFailed(widget, i)
                      ELSE [widget EXCEPT !.polls[i] = Poll("json", NoBody)]
  /\ UNCHANGED WidgetOtherVars

\* await response.json() of a poll settles
WidgetParsed ==
  /\ \E i \in DOMAIN widget.polls :
       /\ widget.polls[i].stage = "json"
       /\ \/ widget' = fetchDataFailed(widget, i)
          \/ \E body \in WidgetBodies : widget' = fetchDataResolved(widget, i, body)
  /\ UNCHANGED WidgetOtherVars

\* The progress interval fires; at most once before a pending render
WidgetTick ==
  /\ widget.ticking /\ ~widget.lateTick
  /\ widget' = progressTick(widget)
  /\ UNCHANGED WidgetOtherVars

\* React renders after setData
WidgetRender ==
  /\ widget.mounted /\ widget.stale /\ widget.effects = "none"
  /\ widget' = WidgetRendered(widget)
  /\ UNCHANGED WidgetOtherVars

NextWidget ==
  \/ WidgetMount
  \/ WidgetEffects
  \/ WidgetPollTimer
  \/ WidgetResponse
  \/ WidgetParsed
  \/ WidgetTick
  \/ WidgetRender

SpecWidget == InitWidget /\ [][NextWidget]_vars

----------------------------------------------------------------------------
(* Properties *)

\* The log of one of the two retry loops
Log(fn) == SelectSeq(events, LAMBDA e : e.fn = fn)
Results(fn) == SelectSeq(events, LAMBDA e : e.fn = fn /\ e.e \in {"ok", "fail"})
NFails(fn) == Len(SelectSeq(events, LAMBDA e : e.fn = fn /\ e.e = "fail"))
Success(status) == status \in 200..299
Failed(out) == out.kind = "throw" \/ (out.kind = "resp" /\ ~Success(out.status))
FallbackBody == [isPlaying |-> Val(FALSE)]
FallbackReply == [status |-> 200, body |-> FallbackBody]

\* Attempts 1 and 2 of the loop failed and attempt 3 succeeded
FailFailOk(fn) ==
  Results(fn) = <<Ev("fail", fn, 0), Ev("fail", fn, 0), Ev("ok", fn, 0)>>

\* C1: when attempts 1 and 2 of getAccessToken (or of fetchWithRetry) fail and
\* attempt 3 succeeds, the events of the loop are attempt 1, wait 2*base,
\* attempt 2, wait 4*base, attempt 3, and the value returned is the one of
\* attempt 3; no wait precedes attempt 1.
C1_BackoffSchedule ==
  /\ \A fn \in {"token", "resource"} :
       FailFailOk(fn) =>
         Log(fn) = <<Ev("attempt", fn, 0), Ev("fail", fn, 0),
                     Ev("wait", fn, 2 * BACKOFF_BASE),
                     Ev("attempt", fn, 0), Ev("fail", fn, 0),
                     Ev("wait", fn, 4 * BACKOFF_BASE),
                     Ev("attempt", fn, 0), Ev("ok", fn, 0)>>
  /\ (FailFailOk("token") /\ tokOut.body.kind = "object")
       => access_token = tokOut.body.access_token
  /\ FailFailOk("resource") => response.status = resOut.status
  /\ \A fn \in {"token", "resource"} :
       Log(fn) # <<>> => Log(fn)[1].e = "attempt"

C1_Witness ==
  /\ FailFailOk("token") /\ FailFailOk("resource")
  /\ access_token.k = "val"

\* C2: one call of getAccessToken or of fetchWithRetry sends at most 3 HTTP
\* requests; when all 3 fail the call throws and no 4th request is sent.
C2_AtMostThreeRequests ==
  /\ tokReqs <= 3 /\ resReqs <= 3
  /\ NFails("token") = 3
       => pc = "done" /\ route = "catch" /\ err = ErrorOf(tokOut)
          /\ tokReqs = 3 /\ resReqs = 0
  /\ NFails("resource") = 3
       => pc = "done" /\ route = "catch" /\ err = ErrorOf(resOut)
          /\ resReqs = 3

C2_Witness ==
  /\ NFails("resource") = 3 /\ resReqs = 3 /\ tokReqs = 3 /\ pc = "done"

\* Some step of the invocation failed: a retry loop was exhausted, or a body
\* could not be parsed or projected
StepFailed ==
  \/ Failed(tokOut)
  \/ tokOut.body.kind \in {"unparseable", "null"}
  \/ Failed(resOut)
  \/ song \in RaisingSongs

\* C3: every invocation of GET ends with exactly one HTTP 200 JSON reply, and
\* when any step failed the body is exactly { isPlaying: false }; in
\* particular when the token endpoint fails on all attempts.
C3_AlwaysHttp200 ==
  /\ pc # "done" => replies = 0
  /\ pc = "done" =>
       /\ replies = 1
       /\ reply.status = 200
       /\ StepFailed => reply.body = FallbackBody
  /\ (pc = "done" /\ resReqs = 0) => reply = FallbackReply

C3_Witness ==
  /\ pc = "done" /\ NFails("token") = 3 /\ tokOut.kind = "throw"
  /\ reply = FallbackReply

NormalizedKeys ==
  {"title", "artist", "album", "albumArtUrl", "songUrl", "progress", "duration"}

\* C4: a normalized track payload is produced only from a 2xx, non-204
\* upstream response; every other condition replies exactly
\* { isPlaying: false }, and no reply is partially populated.
C4_NoPartialPayload ==
  pc = "done" =>
    /\ (DOMAIN reply.body \cap NormalizedKeys # {})
         => (resOut.kind = "resp" /\ Success(resOut.status) /\ resOut.status # 204)
    /\ ~(resOut.kind = "resp" /\ Success(resOut.status) /\ resOut.status # 204)
         => reply.body = FallbackBody
    /\ DOMAIN reply.body \in {{"isPlaying"}, NormalizedKeys \cup {"isPlaying"}}

\* C5: a 204 of the currently-playing endpoint is a successful attempt, is not
\* retried, is answered with HTTP 200 { isPlaying: false }, and its body is
\* never parsed.
C5_NoContent ==
  (resOut.kind = "resp" /\ resOut.status = 204) =>
    /\ pc = "done"
    /\ reply = FallbackReply
    /\ ~parsed
    /\ route = "status_check"
    /\ events[Len(events)] = Ev("ok", "resource", 0)
    /\ NFails("resource") = resReqs - 1

C5_Witness ==
  /\ resOut = Resp(204) /\ pc = "done" /\ resReqs = 2 /\ reply = FallbackReply

\* C6: a status >= 400 of the currently-playing endpoint reaches the reply
\* through the status check of GET (RESPONDING), not through the catch block
\* (FAILED).
C6_ErrorStatusByStatusCheck ==
  (pc = "done" /\ resOut.kind = "resp" /\ resOut.status >= 400)
    => route = "status_check"

\* The artists' names joined with ', ', in upstream order
RECURSIVE JoinedUpTo(_, _)
JoinedUpTo(a, n) ==
  IF n = 0 THEN ""
  ELSE IF n = 1 THEN a[1].v
  ELSE JoinedUpTo(a, n - 1) \o ", " \o a[n].v

\* C7: for every well-formed 200 body the reply is the projection of the
\* body, with all eight fields and no other.
C7_Projection ==
  (pc = "done" /\ resOut = Resp(200) /\ song \in WellFormedSongs) =>
    /\ reply.status = 200
    /\ DOMAIN reply.body = NormalizedKeys \cup {"isPlaying"}
    /\ reply.body.isPlaying = song.is_playing
    /\ reply.body.title = song.item.name
    /\ reply.body.artist =
         Val(JoinedUpTo(song.item.artists.v, Len(song.item.artists.v)))
    /\ reply.body.album = song.item.album.name
    /\ reply.body.albumArtUrl = Head(song.item.album.images.v)
    /\ reply.body.songUrl = song.item.external_urls.spotify
    /\ reply.body.progress = song.progress_ms
    /\ reply.body.duration = song.item.duration_ms

\* The malformed nested shapes: item null or missing, item.album missing,
\* item.album.images empty, item.artists missing, item.external_urls missing
MalformedNested(s) ==
  /\ s.kind = "object"
  /\ \/ s.item.k \in {"null", "undef"}
     \/ s.item.album.k = "undef"
     \/ (s.item.album.images.k = "val" /\ s.item.album.images.v = <<>>)
     \/ s.item.artists.k = "undef"
     \/ s.item.external_urls.k = "undef"

\* C8: a 200 body with a malformed nested shape goes to FAILED and is answered
\* with HTTP 200 { isPlaying: false }.
C8_MalformedBody ==
  (pc = "done" /\ resOut = Resp(200) /\ MalformedNested(song)) =>
    /\ route = "catch"
    /\ err = TypeError
    /\ reply = FallbackReply

C8_Witness ==
  /\ pc = "done" /\ resOut = Resp(200) /\ song.item.k = "null"
  /\ route = "catch" /\ reply = FallbackReply

\* The stage of the invocation
Stage ==
  CASE pc \in {"tok_fetch", "tok_wait", "tok_json"} -> "FETCHING_TOKEN"
    [] pc \in {"res_fetch", "res_wait"} -> "FETCHING_RESOURCE"
    [] pc = "res_json" -> "NORMALIZING"
    [] pc = "done" /\ route = "catch" -> "FAILED"
    [] pc = "done" /\ route # "catch" -> "RESPONDING"
    [] OTHER -> "NONE"

Rank(stage) ==
  CASE stage = "NONE" -> 0
    [] stage = "FETCHING_TOKEN" -> 1
    [] stage = "FETCHING_RESOURCE" -> 2
    [] stage = "NORMALIZING" -> 3
    [] OTHER -> 4

\* C9: the stages of one invocation only go forward; no currently-playing
\* request is sent before a token request has succeeded; a failed token
\* acquisition goes to FAILED without any currently-playing request; nothing
\* is sent after FAILED.
C9_StageOrder ==
  /\ [](resReqs > 0 =>
          (tokOut.kind = "resp" /\ Success(tokOut.status)
           /\ tokOut.body.kind = "object"))
  /\ []((Failed(tokOut) /\ pc = "done") => (Stage = "FAILED" /\ resReqs = 0))
  /\ [][calls' = calls =>
          /\ Rank(Stage') >= Rank(Stage)
          /\ (Stage = "FETCHING_TOKEN" =>
                Stage' \in {"FETCHING_TOKEN", "FETCHING_RESOURCE", "FAILED"})
          /\ (Stage = "FETCHING_RESOURCE" =>
                Stage' \in {"FETCHING_RESOURCE", "NORMALIZING", "RESPONDING",
                            "FAILED"})
          /\ (Stage = "NORMALIZING" => Stage' \in {"RESPONDING", "FAILED"})
          /\ (Stage \in {"FAILED", "RESPONDING"} =>
                (tokReqs' = tokReqs /\ resReqs' = resReqs /\ Stage' = Stage))]_vars

C9_Witness ==
  /\ Stage = "FAILED" /\ NFails("token") = 3 /\ resReqs = 0 /\ calls = 2

\* C10: the attempt counters of the two loops are independent: whatever the
\* number of token attempts, fetchWithRetry has its 3 attempts; each loop runs
\* at most once per invocation, so at most 3 + 3 requests are sent, and
\* nothing is retried by the handler after an exhaustion.
C10_IndependentCounters ==
  /\ tokReqs <= 3 /\ resReqs <= 3 /\ tokReqs + resReqs <= 6
  /\ tokRetry = NFails("token")
  /\ resRetry = NFails("resource")
  /\ (pc = "done" /\ Failed(resOut)) => (resReqs = 3 /\ NFails("resource") = 3)
  /\ (pc = "done" /\ Failed(tokOut)) => (tokReqs = 3 /\ NFails("token") = 3)
  /\ Len(SelectSeq(events, LAMBDA e : e.e = "attempt")) = tokReqs + resReqs

C10_Witness ==
  /\ pc = "done" /\ tokReqs = 3 /\ resReqs = 3 /\ Failed(resOut)
  /\ NFails("token") = 2

----------------------------------------------------------------------------
(* Properties of the top-tracks handler *)

TopRequests == {"tracks", "artists"}

\* A stage of the top-tracks invocation failed: the token or a top endpoint
\* answered non-2xx or threw, or a body could not be parsed or has no items
TopFailed ==
  \/ Failed(top.tokOut)
  \/ (top.tokOut.kind = "resp" /\ top.tokOut.body.kind \in {"unparseable", "null"})
  \/ \E n \in top.issued :
       \/ Failed(top.outs[n])
       \/ (top.outs[n].kind = "resp"
           /\ (top.outs[n].body.kind # "object"
               \/ top.outs[n].body.items.k = "undef"))

\* C11: in the top-tracks handler a failure at any stage yields HTTP 200 with
\* the fallback body (topTracks [], and topArtists [] in part_004); the reply
\* never lacks topTracks.
C11_TopFallback ==
  top.pc = "done" =>
    /\ top.reply.status = 200
    /\ "topTracks" \in DOMAIN top.reply.body
    /\ TopFailed => top.reply.body = TopFallback(top.rev)

\* The token request and the top-tracks request succeeded (and, in part_004,
\* the artists response arrived with a JSON object)
TopSucceeded ==
  /\ top.tokOut.kind = "resp" /\ Success(top.tokOut.status)
  /\ top.tokOut.body.kind = "object"
  /\ top.outs.tracks.kind = "resp" /\ Success(top.outs.tracks.status)
  /\ top.outs.tracks.body.kind = "object"
  /\ top.outs.tracks.body.items.k = "val"
  /\ top.rev = "part_004" =>
       (top.outs.artists.kind = "resp" /\ top.outs.artists.body.kind = "object")

\* C12: when the token request and the top-tracks request both succeed,
\* topTracks of the reply is the upstream items sequence: same elements, same
\* order, same length.
C12_TopTracksVerbatim ==
  (top.pc = "done" /\ TopSucceeded) =>
    LET items == top.outs.tracks.body.items.v
    IN /\ top.reply.status = 200
       /\ "topTracks" \in DOMAIN top.reply.body
       /\ top.reply.body.topTracks.k = "val"
       /\ Len(top.reply.body.topTracks.v) = Len(items)
       /\ \A i \in 1..Len(items) : top.reply.body.topTracks.v[i] = items[i]
       /\ top.rev # "part_004" => DOMAIN top.reply.body = {"topTracks"}

C12_Witness ==
  /\ top.pc = "done" /\ TopSucceeded /\ top.rev = "part_003"
  /\ top.reply.body.topTracks = Val(<<"2", "1">>)

\* C13: in every handler a token response outside the success range is a
\* failed attempt: no Bearer request is sent with a token taken from it.
C13_TokenOnlyFrom2xx ==
  /\ top.issued # {} => (top.tokOut.kind = "resp" /\ Success(top.tokOut.status))
  /\ resReqs > 0 => (tokOut.kind = "resp" /\ Success(tokOut.status))

\* C16 as claimed: in part_004 both requests are sent after the token is
\* obtained and before either is awaited, the reply is emitted only after both
\* have completed, and a rejection of either gives the fallback.
C16_ReplyAfterBoth ==
  top.rev = "part_004" =>
    /\ top.issued \in {{}, TopRequests}
    /\ top.issued # {} => top.tokOut.kind = "resp"
    /\ top.replies > 0 => top.pending = {}
    /\ (top.pc = "done" /\ \E n \in TopRequests : top.outs[n].kind = "throw")
         => top.reply = [status |-> 200, body |-> TopFallback(top.rev)]

\* C16 amended: both requests are sent after the token is obtained and before
\* either completes; a reply built from the responses is emitted only after
\* both have arrived and does not depend on which arrived first; when either
\* request rejects, the fallback is emitted at the first rejection, the other
\* request possibly still in flight.
C16_ParallelJoin ==
  top.rev = "part_004" =>
    /\ top.issued \in {{}, TopRequests}
    /\ top.issued # {} =>
         (top.tokOut.kind = "resp" /\ top.bearer = top.tokOut.body.access_token)
    /\ Cardinality(top.pending) + Len(top.order) = Cardinality(top.issued)
    /\ (top.pc = "done" /\ top.route = "returned") => top.pending = {}
    /\ (top.pc = "done" /\ top.pending # {}) =>
         /\ \E n \in TopRequests : top.outs[n].kind = "throw"
         /\ top.reply = [status |-> 200, body |-> TopFallback(top.rev)]
    /\ (top.pc = "done" /\ \E n \in TopRequests : top.outs[n].kind = "throw")
         => top.reply = [status |-> 200, body |-> TopFallback(top.rev)]
    /\ (top.pc = "done" /\ \A n \in TopRequests :
            top.outs[n].kind = "resp" /\ top.outs[n].body.kind = "object") =>
         /\ top.reply.status = 200
         /\ ("topTracks" \in DOMAIN top.reply.body)
              = (top.outs.tracks.body.items.k # "undef")
         /\ ("topArtists" \in DOMAIN top.reply.body)
              = (top.outs.artists.body.items.k # "undef")
         /\ DOMAIN top.reply.body \subseteq {"topTracks", "topArtists"}
         /\ "topTracks" \in DOMAIN top.reply.body
              => top.reply.body.topTracks = top.outs.tracks.body.items
         /\ "topArtists" \in DOMAIN top.reply.body
              => top.reply.body.topArtists = top.outs.artists.body.items

C16_Witness ==
  /\ top.rev = "part_004" /\ top.pc = "done"
  /\ top.order = <<"artists", "tracks">>
  /\ top.reply.body = [topTracks |-> Val(<<"1", "2">>), topArtists |-> Val(<<"2">>)]

\* C20: with a credential absent nothing fails before the token request is
\* sent, and when the token endpoint rejects it the handler replies its
\* fallback payload with HTTP 200.
C20_MissingCredentials ==
  top.creds # FullCredentials =>
    /\ top.pc # "idle" => top.request = TokenRequest(top.creds)
    /\ top.pc = "done" =>
         top.reply = [status |-> 200, body |-> TopFallback(top.rev)]

----------------------------------------------------------------------------
(* Properties of interleaved invocations *)

\* C14: the Bearer token of every resource request is the access_token of
\* the successful token response of the same invocation.
C14_OwnSuccessfulToken ==
  top.issued # {} =>
    /\ top.tokOut.kind = "resp" /\ Success(top.tokOut.status)
    /\ top.bearer = top.tokOut.body.access_token

\* The same for the now-playing handler, whose token loop tests response.ok
NowPlayingOwnToken ==
  \A i \in Invocations :
    inv[i].resReqs > 0 =>
      /\ inv[i].tokOut.kind = "resp" /\ Success(inv[i].tokOut.status)
      /\ inv[i].bearer = inv[i].tokOut.body.access_token

\* An invocation running alone on a sequence of inputs
RECURSIVE Alone(_, _)
Alone(s, ins) ==
  IF ins = <<>> THEN s ELSE Alone(Resume(s, Head(ins)), Tail(ins))

\* C15: whatever the interleaving, the state of an invocation (reply, retry
\* counts, backoff schedule) is the one it reaches alone on its own inputs.
C15_NoSharedState ==
  \A i \in Invocations :
    inv[i].pc # "idle" => inv[i] = Alone(TokenLoop(Fresh(1)), seen[i])

C15_Witness ==
  /\ inv[1].pc = "tok_wait" /\ inv[1].tokRetry = 2
  /\ inv[2].pc = "res_wait" /\ inv[2].resRetry = 1
  /\ inv[2].events[Len(inv[2].events)] = Ev("wait", "resource", 2 * BACKOFF_BASE)

\* The reply the handler of part_005 owes to the inputs ins of one invocation,
\* written from the outcomes alone: nothing before the last input settles the
\* reply, the third failure of a loop and a body that cannot be read or
\* destructured are answered with the fallback, so is a 204, and the body of a
\* 200 with its eight fields
ReplyOwed(ins) ==
  LET last == ins[Len(ins)]
      fails(kind) ==
        Len(SelectSeq(ins, LAMBDA in : in.kind = kind /\ Failed(in.out)))
      b == last.sbody
  IN IF ins = <<>> THEN NoReply
     ELSE IF last.kind \in {"token", "resource"} /\ Failed(last.out)
     THEN IF fails(last.kind) = MAX_ATTEMPTS THEN FallbackReply ELSE NoReply
     ELSE IF last.kind = "resource"
     THEN IF last.out.status = 204 THEN FallbackReply ELSE NoReply
     ELSE IF last.kind = "tokbody"
     THEN IF last.tbody.kind = "object" THEN NoReply ELSE FallbackReply
     ELSE IF last.kind = "song"
     THEN IF b \notin WellFormedSongs THEN FallbackReply
          ELSE [status |-> 200,
                body |-> [isPlaying |-> b.is_playing, title |-> b.item.name,
                          artist |-> Val(JoinedUpTo(b.item.artists.v,
                                                    Len(b.item.artists.v))),
                          album |-> b.item.album.name,
                          albumArtUrl |-> Head(b.item.album.images.v),
                          songUrl |-> b.item.external_urls.spotify,
                          progress |-> b.progress_ms,
                          duration |-> b.item.duration_ms]]
     ELSE NoReply

\* C17: the reply of an invocation is a function of the outcomes it observed,
\* whatever the other invocation does meanwhile, so two invocations that
\* observed the same outcomes emit the same reply; the progress of a
\* normalized reply is the progress_ms of the body read by that invocation, so
\* it does not decrease when progress_ms does not.
C17_Deterministic ==
  /\ \A i \in Invocations :
       inv[i].pc # "idle" =>
         /\ inv[i].reply = ReplyOwed(seen[i])
         /\ inv[i].pc = "done" <=> inv[i].reply # NoReply
  /\ \A i, j \in Invocations :
       (inv[i].pc = "done" /\ inv[j].pc = "done" /\ seen[i] = seen[j])
         => inv[i].reply = inv[j].reply
  /\ \A i \in Invocations :
       inv[i].route = "normalized" =>
         /\ inv[i].song = seen[i][Len(seen[i])].sbody
         /\ inv[i].reply.body.progress = inv[i].song.progress_ms
  /\ \A i, j \in Invocations :
       (inv[i].route = "normalized" /\ inv[j].route = "normalized"
        /\ inv[i].song.progress_ms.v <= inv[j].song.progress_ms.v)
         => inv[i].reply.body.progress.v <= inv[j].reply.body.progress.v

C17_Witness ==
  /\ inv[1].route = "normalized" /\ inv[2].route = "normalized"
  /\ seen[1] = seen[2] /\ Len(seen[1]) = 6
  /\ inv[1].reply.body.progress = Val(50000)

\* The failed responses of one loop of invocation i, in order
Failures(i, kind) ==
  SelectSeq(seen[i], LAMBDA in : in.kind = kind /\ Failed(in.out))

\* The error of an attempt: the rejection of fetch, or the Error built from
\* the status of a response that is not ok
Thrown(out) ==
  IF out.kind = "throw" THEN [k |-> "transport", status |-> 0]
  ELSE [k |-> "http", status |-> out.status]

\* C18: when the third attempt of a loop fails, the invocation ends with the
\* error of that third attempt.
C18_LastAttemptError ==
  \A i \in Invocations : \A kind \in {"token", "resource"} :
    Len(Failures(i, kind)) = MAX_ATTEMPTS =>
      /\ inv[i].pc = "done" /\ inv[i].route = "catch"
      /\ inv[i].err = Thrown(Failures(i, kind)[MAX_ATTEMPTS].out)

C18_Witness ==
  /\ Len(Failures(1, "token")) = 3
  /\ Failures(1, "token")[1].out = Throw
  /\ inv[1].err = [k |-> "http", status |-> 404]
  /\ Len(Failures(2, "resource")) = 3
  /\ Failures(2, "resource")[2].out = Resp(500)
  /\ inv[2].err = [k |-> "transport", status |-> 0]

\* Backoff waits of one loop in the current invocation
Waits(fn) == Len(SelectSeq(events, LAMBDA e : e.fn = fn /\ e.e = "wait"))

\* C19: when every fetch settles and every timer fires, an invocation that
\* has started ends with exactly one reply; each loop waits at most twice and
\* an invocation never stops anywhere but at its reply.
C19_EventuallyReplies ==
  /\ [](Waits("token") <= 2 /\ Waits("resource") <= 2)
  /\ [](pc \in {"idle", "tok_fetch", "tok_wait", "tok_json", "res_fetch",
                "res_wait", "res_json", "done"})
  /\ [](pc = "done" => replies = 1)
  /\ (pc # "idle") ~> (pc = "done" /\ replies = 1)

C19_Witness ==
  /\ pc = "done" /\ replies = 1 /\ route = "normalized"
  /\ Waits("token") = 2 /\ Waits("resource") = 2

----------------------------------------------------------------------------
(* Further properties of the route handlers *)

\* Requests sent to the top-tracks endpoint: each one has settled
TracksAttempts == Len(SelectSeq(top.order, LAMBDA n : n = "tracks"))

\* C21: a failed top-tracks request is retried: the handler has made 3
\* attempts by the time it replies after a failure of that request.
C21_TopTracksRetried ==
  (top.pc = "done" /\ "tracks" \in top.issued /\ Failed(top.outs.tracks))
    => TracksAttempts = MAX_ATTEMPTS

\* C26: a response returned by fetchWithRetry has a status in 200..299, so
\* the test response.status > 400 is false for it; a resource status of 300
\* or more ends in the catch block after 3 failed attempts.
C26_OnlySuccessReturned ==
  /\ response.status # 0 =>
       (response.status \in 200..299 /\ ~(response.status > 400))
  /\ route = "status_check" => response.status = 204
  /\ (pc = "done" /\ resOut.kind = "resp" /\ resOut.status >= 300) =>
       (route = "catch" /\ NFails("resource") = 3 /\ resReqs = 3
        /\ err = [k |-> "http", status |-> resOut.status])

C26_Witness ==
  /\ pc = "done" /\ resOut = Resp(404) /\ route = "catch"
  /\ reply = FallbackReply /\ response.status = 0

\* Sum of the backoff delays of one loop in the current invocation
RECURSIVE TotalMs(_)
TotalMs(es) == IF es = <<>> THEN 0 ELSE Head(es).ms + TotalMs(Tail(es))
WaitMs(fn) == TotalMs(SelectSeq(events, LAMBDA e : e.fn = fn /\ e.e = "wait"))

\* C29: a loop waits at most twice and at most 6*BACKOFF_BASE in total, an
\* invocation at most 12*BACKOFF_BASE; the third failure is followed by no
\* wait, and the throw after the while loop is never reached.
C29_BoundedBackoff ==
  /\ \A fn \in {"token", "resource"} :
       /\ Waits(fn) <= 2
       /\ WaitMs(fn) <= 6 * BACKOFF_BASE
       /\ NFails(fn) = 3 =>
            (Log(fn)[Len(Log(fn))].e = "fail" /\ Waits(fn) = 2 /\ pc = "done")
  /\ WaitMs("token") + WaitMs("resource") <= 12 * BACKOFF_BASE
  /\ err # GenericError

C29_Witness ==
  /\ pc = "done" /\ NFails("token") = 2 /\ NFails("resource") = 3
  /\ WaitMs("token") + WaitMs("resource") = 12 * BACKOFF_BASE

----------------------------------------------------------------------------
(* Properties of SkillTyper *)

\* C22: the list never holds more than 4 popups nor more than 2 auto popups.
C22_PopupLimits ==
  /\ Len(typer.popups) <= 4
  /\ autoCount(typer.popups) <= 2

PopupIds(ps) == {ps[i].id : i \in DOMAIN ps}
PopupOf(ps, id) == ps[CHOOSE i \in DOMAIN ps : ps[i].id = id]

\* The first index after last, cyclically, whose skill is not in visible
FirstFree(visible, last) ==
  LET n == Len(skills)
      d == CHOOSE i \in 1..n :
             /\ skills[((last + i) % n) + 1] \notin visible
             /\ \A j \in 1..(i - 1) : skills[((last + j) % n) + 1] \in visible
  IN (last + d) % n

NextSkillInOrder ==
  /\ []~typer.fallback
  /\ [][typer'.nextId = typer.nextId + 1 =>
          /\ typer'.saw \in {visibleSkillsOf(typer.captured),
                              visibleSkillsOf(typer.rendered)}
          /\ typer'.lastSkillIndex = FirstFree(typer'.saw, typer.lastSkillIndex)
          /\ typer'.timers[typer.nextId].skill
               = skills[typer'.lastSkillIndex + 1]]_vars

\* C24 as claimed: whenever active is false the list is empty and no timer
\* adds a popup to it.
C24_EmptyWhileInactive ==
  /\ []((typer.mounted /\ ~typer.active) => typer.popups = <<>>)
  /\ [][(typer.mounted /\ ~typer.active /\ ~typer'.active)
          => Len(typer'.popups) <= Len(typer.popups)]_vars

\* C24: once the effects of the render that made active false have run, the
\* list is empty and stays empty while active stays false: the effect on
\* [active] has cleared it, the clean-ups have removed the click listener and
\* the timers of autoTimers, the staggered timer returns on isUnmounted and
\* the popup timers only map or filter the list. A render shows the empty
\* list as soon as no update is pending.
C24_EmptyOnceEffectsRan ==
  /\ []((typer.mounted /\ ~typer.active /\ typer.effects = "none") =>
         /\ typer.popups = <<>>
         /\ ~typer.live /\ typer.autoTimers = 0
         /\ ~typer.stale => typer.rendered = <<>>)
  /\ [][(typer.mounted /\ ~typer.active /\ typer.effects = "none"
          /\ ~typer'.active)
          => (typer'.popups = <<>> /\ typer'.nextId = typer.nextId)]_vars

\* Popups were spawned, active became false with its effects run, a popup
\* timer of an earlier popup and the staggered timer have fired since
C24_Witness ==
  /\ typer.mounted /\ ~typer.active /\ typer.effects = "none"
  /\ typer.spawned > 0
  /\ ~typer.orphan /\ ~typer.stale /\ typer.popups = <<>>
  /\ \E id \in DOMAIN typer.timers : typer.timers[id].stage = "remove"

\* Ids a popup can have within the bounds
TyperIds == UNION {n..(n + MaxLiveSpawns - 1) : n \in {0} \cup StartSpawns}

\* Every popup shows a prefix of its text, is opaque or faded, and is faded
\* only when fully typed; ids are unique
PopupShapes ==
  /\ \A i \in DOMAIN typer.popups :
       LET p == typer.popups[i]
       IN /\ p.displayText = slice(p.text, Len(p.displayText))
          /\ p.opacity \in {0, 1}
          /\ p.opacity = 0 => p.displayText = p.text
          /\ p.id < typer.nextId
  /\ \A i, j \in DOMAIN typer.popups :
       i # j => typer.popups[i].id # typer.popups[j].id

\* A popup that stays in the list keeps its text, gains at most one
\* character and does not become opaque again
PopupAdvances(p, q) ==
  /\ q.text = p.text /\ q.auto = p.auto
  /\ Len(q.displayText) \in {Len(p.displayText), Len(p.displayText) + 1}
  /\ q.opacity <= p.opacity

EventuallyRemoved ==
  \A id \in TyperIds :
    (id \in PopupIds(typer.popups)) ~> (id \notin PopupIds(typer.popups))

\* C25 as claimed: every popup is typed one character per tick, then fully
\* typed, then faded, then removed, in that order, and is eventually removed;
\* ids are unique.
C25_PhasesInOrder ==
  /\ []PopupShapes
  /\ [][/\ typer'.nextId >= typer.nextId
        /\ \A id \in PopupIds(typer.popups) :
             IF id \in PopupIds(typer'.popups)
             THEN PopupAdvances(PopupOf(typer.popups, id), PopupOf(typer'.popups, id))
             ELSE PopupOf(typer.popups, id).opacity = 0]_vars
  /\ EventuallyRemoved

----------------------------------------------------------------------------
(* Properties of the NowPlaying widget *)

PollsDone == {i \in DOMAIN widget.polls : widget.polls[i].stage = "done"}
LatestDone == CHOOSE i \in PollsDone : \A j \in PollsDone : j <= i

\* C27: the displayed data is the reply of the most recently started poll
\* among those that have completed: a reply of an older poll never
\* overwrites the reply of a newer one.
C27_NewestReplyShown ==
  PollsDone # {} =>
    /\ widget.shown = LatestDone
    /\ widget.data = widget.polls[LatestDone].body

\* The poll that completes in this step, 0 if none
Completing ==
  IF \E i \in DOMAIN widget.polls :
       widget.polls[i].stage = "json" /\ widget'.polls[i].stage = "done"
  THEN widget'.shown ELSE 0

FailingStep ==
  \E i \in DOMAIN widget.polls :
    widget.polls[i].stage # "failed" /\ widget'.polls[i].stage = "failed"

\* C28: a successful poll that reports a playing track sets localProgress to
\* the progress of its reply, 0 included; a tick adds 1000 ms clamped at the
\* duration; while a track is playing 0 <= localProgress <= data.duration;
\* a failed poll leaves data and localProgress unchanged.
C28_ProgressWithinTrack ==
  /\ [](Playing(widget.data) =>
          /\ 0 <= widget.localProgress
          /\ widget.localProgress <= NumberOf(widget.data, "duration"))
  /\ [][/\ (Completing # 0 /\ Playing(widget'.data)) =>
             widget'.localProgress = NumberOf(widget'.data, "progress")
        /\ (widget'.polls = widget.polls
              /\ widget'.localProgress # widget.localProgress) =>
             widget'.localProgress =
               IF widget.localProgress + PROGRESS_UPDATE_INTERVAL
                    >= NumberOf(widget.data, "duration")
               THEN NumberOf(widget.data, "duration")
               ELSE widget.localProgress + PROGRESS_UPDATE_INTERVAL
        /\ FailingStep =>
             /\ widget'.data = widget.data
             /\ widget'.localProgress = widget.localProgress]_vars

====
